---- MODULE Spec2Model ----
(***************************************************************************)
(* Tegra I2C master-mode packet transfer engine                            *)
(* (u-boot/drivers/i2c/tegra_i2c.c).                                       *)
(*                                                                         *)
(* The driver is single-threaded.  Every register access of the code is    *)
(* appended to the log `ops`; a poll is one step per check; the hardware   *)
(* is the environment (status samples are chosen by the hardware, the      *)
(* interrupt status register is write-1-to-clear).                         *)
(***************************************************************************)
EXTENDS Integers, Sequences, FiniteSets, TLC

(***************************************************************************)
(* Bounds of the model.                                                    *)
(***************************************************************************)
\* longest payload of a direct i2c_write_data / i2c_read_data call
MaxLen == 5
\* largest start offset of a payload buffer from a 4-byte boundary
MaxOff == 1
\* poll budget in microseconds, scaled down (the header sets 10000)
I2C_TIMEOUT_USEC == 10
\* size of the i2c_controllers[] table, scaled down
TEGRA_I2C_NUM_CONTROLLERS == 2
\* most bytes of one tegra_i2c_read / tegra_i2c_write call
MaxStream == 2

(***************************************************************************)
(* Constants of asm/arch-tegra/tegra_i2c.h.                                *)
(***************************************************************************)
I2C_FIFO_DEPTH == 8
TX_FIFO_EMPTY_CNT_SHIFT == 4
TX_FIFO_FULL_CNT_SHIFT == 0
I2C_INT_XFER_COMPLETE_MASK == 128
I2C_INT_NO_ACK_MASK == 8
I2C_INT_ARBITRATION_LOST_MASK == 4
I2C_CNFG_NEW_MASTER_FSM_MASK == 2048
I2C_CNFG_PACKET_MODE_MASK == 1024
I2C_SL_CNFG_NEWSL_MASK == 4
DVC_CTRL_REG3_I2C_HW_SW_PROG_MASK == 67108864
I2C_IS_WRITE == 1
PROTOCOL_TYPE_I2C == 1
PKT_HDR1_PROTOCOL_SHIFT == 4
PKT_HDR1_CTLR_ID_SHIFT == 12
PKT_HDR1_PKT_ID_SHIFT == 16
PKT_HDR2_PAYLOAD_SIZE_SHIFT == 0
PKT_HDR3_SLAVE_ADDR_SHIFT == 0
PKT_HDR3_READ_MODE_MASK == 524288
\* udelay(10); timeout_us -= 10
POLL_STEP_USEC == 10

(***************************************************************************)
(* Integer helpers.  Register values are integers (every value the model   *)
(* computes stays below 2^31: num_bytes >= 1, chip < 128); a payload word  *)
(* is the tuple of its four bytes, least significant first.                *)
(***************************************************************************)
Pow2(n) == 2 ^ n
\* x << n
Shl(x, n) == x * Pow2(n)
\* x & mask for a single-bit mask
TestBit(x, mask) == (x \div mask) % 2 = 1
\* x | mask for a single-bit mask
SetBit(x, mask) == IF TestBit(x, mask) THEN x ELSE x + mask
\* (x & (0xf << shift)) >> shift
Field4(x, shift) == (x \div Pow2(shift)) % 16
\* x & ~v, bit by bit over the low 8 bits (write-1-to-clear)
RECURSIVE ClearBits(_, _, _)
ClearBits(x, v, bit) ==
  IF bit > 128 THEN x
  ELSE ClearBits(IF TestBit(v, bit) /\ TestBit(x, bit) THEN x - bit ELSE x,
                 v, 2 * bit)

Byte == 0 .. 255
\* byte i of the storage of a 32-bit word: the CPU is little-endian, so the
\* byte at the lowest address (i = 0) is the least significant
ByteOf(w, i) == w[i + 1]

DivRoundUpFloor(n, d) == n \div d
\* DIV_ROUND_UP(n, d)
DIV_ROUND_UP(n, d) == (n + d - 1) \div d


(***************************************************************************)
(* State.                                                                  *)
(***************************************************************************)
VARIABLES
  i2c_controllers, \* the table of struct i2c_bus, indexed by controller id
  node_list,       \* i2c_init_board: the node list of the running pass
  board,           \* i2c_init_board: its position [pass, i], or done
  op,              \* the operation the caller is running, and its result
  data,            \* tegra_i2c_probe / _read / _write: the local byte array
  trans,           \* send_recv_packets: the transfer descriptor
  cur,             \* send_recv_packets: index of the i2c_bus it runs on
  pc,              \* send_recv_packets: position in the function
  words,           \* send_recv_packets: payload words left
  dptr,            \* send_recv_packets: address of the current word
  local,           \* send_recv_packets: the staging word
  error,           \* send_recv_packets: the error to return
  ret,             \* the value send_recv_packets returned
  timeout_us,      \* wait_for_*: budget left
  count,           \* wait_for_*_fifo_*: the count field last sampled
  wfc,             \* the value wait_for_transfer_complete returned
  mem,             \* the caller's memory, byte addressed
  mem0,            \* history: the memory when the running operation started
  ops,             \* hardware accesses of the running transaction, in order
  touched,         \* whether the running operation accessed the hardware
  txns,            \* transactions the running operation has completed
  hw_int,          \* hardware: the interrupt status register
  rxq,             \* hardware: the loopback double's receive FIFO
  loopback         \* hardware: whether the loopback double is attached

boardVars == <<i2c_controllers, node_list, board>>
callVars == <<op, data, txns, touched, mem0>>
engVars == <<trans, cur, pc, words, dptr, local, error, ret, timeout_us,
             count, wfc, ops>>
hwVars == <<hw_int, rxq, loopback>>
vars == <<boardVars, callVars, engVars, hwVars, mem>>

CtlrIds == 0 .. (TEGRA_I2C_NUM_CONTROLLERS - 1)

\* static storage is zero-valued
ZeroBus == [id |-> 0, periph_id |-> 0, speed |-> 0, is_dvc |-> FALSE,
            is_scs |-> FALSE, inited |-> FALSE]

(***************************************************************************)
(* The hardware access log.                                                *)
(***************************************************************************)
Rd(c, reg) == [k |-> "r", c |-> c, reg |-> reg, val |-> 0, tag |-> ""]
Wr(c, reg, val, tag) == [k |-> "w", c |-> c, reg |-> reg, val |-> val, tag |-> tag]
ResetPeriph(c) == [k |-> "reset", c |-> c, reg |-> "periph", val |-> 1, tag |-> ""]
ClockStart(c, rate) == [k |-> "clock", c |-> c, reg |-> "pll", val |-> rate, tag |-> ""]
FuncmuxSelect(c) == [k |-> "funcmux", c |-> c, reg |-> "pinmux", val |-> 0, tag |-> ""]

IsTxWrite(e) == e.k = "w" /\ e.reg = "tx_fifo"
IsRxRead(e) == e.k = "r" /\ e.reg = "rx_fifo"
IsFifoAccess(e) == IsTxWrite(e) \/ IsRxRead(e)
IsReset(e) == e.k = "reset"

(***************************************************************************)
(* Memory.  The caller's source region is [0, RegionSize), the destination *)
(* region [DstBase, DstBase + RegionSize); the local array `data` of the   *)
(* adapter functions lives at DataBase + its alignment.                    *)
(***************************************************************************)
RegionSize == 4 * (DIV_ROUND_UP(MaxLen, 4) + 1)
DstBase == RegionSize
MemSize == 2 * RegionSize
DataBase == MemSize + 4
PatSeeds == {160}
FillBytes == {204}
PadBytes == {0, 238}
PatByte(p, a) == (p + 17 * a) % 256
MemImage(p, f) == [a \in 0 .. (MemSize - 1) |->
                     IF a < DstBase THEN PatByte(p, a) ELSE f]
MemImages == {MemImage(p, f) : p \in PatSeeds, f \in FillBytes}

\* the byte at address a; beyond the objects the value is whatever lies there
LoadByte(a, pad) ==
  IF a < MemSize THEN mem[a]
  ELSE IF a - data.at + 1 \in 1 .. Len(data.bytes) THEN data.bytes[a - data.at + 1]
  ELSE pad

\* memcpy(&local, dptr, sizeof(u32)): the four bytes in address order
MemcpyWord(a, pad) == [i \in 1 .. 4 |-> LoadByte(a + i - 1, pad)]
LoadU32BigEndian(a, pad) ==
  <<LoadByte(a + 3, pad), LoadByte(a + 2, pad), LoadByte(a + 1, pad),
    LoadByte(a, pad)>>
\* *wptr for an aligned wptr: a little-endian 32-bit load
LoadU32(a, pad) ==
  <<LoadByte(a, pad), LoadByte(a + 1, pad), LoadByte(a + 2, pad),
    LoadByte(a + 3, pad)>>
\* (unsigned)dptr & 3
Misaligned(a) == a % 4 # 0

\* memcpy(dptr, &local, n)
MemcpyTo(m, a, w, n) ==
  [x \in DOMAIN m |-> IF x >= a /\ x < a + n THEN ByteOf(w, x - a) ELSE m[x]]
\* *wptr = local
StoreU32(m, a, w) ==
  [x \in DOMAIN m |-> IF x \in a .. (a + 3) THEN w[x - a + 1] ELSE m[x]]


(***************************************************************************)
(* set_packet_mode, i2c_reset_controller, i2c_init_controller: the         *)
(* hardware accesses each performs, in order.                              *)
(***************************************************************************)
RECURSIVE Or(_, _)
\* x | y
Or(x, y) ==
  IF x = 0 THEN y
  ELSE IF y = 0 THEN x
  ELSE 2 * Or(x \div 2, y \div 2) + (IF x % 2 = 1 \/ y % 2 = 1 THEN 1 ELSE 0)

\* values the hardware may hold in sl_cnfg and clk_div after a reset / at start
SlCnfgVals == {0}
ClkDivVals == {19 * 65536}
CLK_MULT_STD_FAST_MODE == 8

set_packet_modeNoDvc(b, is_dvc, sl) ==
  <<Wr(b, "cnfg", Or(I2C_CNFG_NEW_MASTER_FSM_MASK, I2C_CNFG_PACKET_MODE_MASK), ""),
    Rd(b, "sl_cnfg"),
    Wr(b, "sl_cnfg", Or(sl, I2C_SL_CNFG_NEWSL_MASK), "")>>
set_packet_mode(b, is_dvc, sl) ==
  LET config == Or(I2C_CNFG_NEW_MASTER_FSM_MASK, I2C_CNFG_PACKET_MODE_MASK)
  IN  IF is_dvc
      THEN <<Wr(b, "dvc_cnfg", config, "")>>
      ELSE <<Wr(b, "cnfg", config, ""),
             Rd(b, "sl_cnfg"),
             Wr(b, "sl_cnfg", Or(sl, I2C_SL_CNFG_NEWSL_MASK), "")>>

i2c_reset_controller(b, is_dvc, sl) ==
  <<ResetPeriph(b)>> \o set_packet_mode(b, is_dvc, sl)

\* bus is the struct i2c_bus as configured (speed already assigned)
i2c_init_controller(b, bus, sl, clkdiv) ==
  <<ClockStart(b, bus.speed * 2 * 8)>>
  \o (IF bus.is_scs
      THEN <<Rd(b, "clk_div"),
             ClockStart(b, CLK_MULT_STD_FAST_MODE * ((clkdiv \div 65536) + 1)
                           * bus.speed * 2)>>
      ELSE <<>>)
  \o i2c_reset_controller(b, bus.is_dvc, sl)
  \o (IF bus.is_dvc
      THEN <<Rd(b, "dvc_ctrl3"),
             Wr(b, "dvc_ctrl3", DVC_CTRL_REG3_I2C_HW_SW_PROG_MASK, "")>>
      ELSE <<>>)
  \o <<FuncmuxSelect(b)>>

(***************************************************************************)
(* send_packet_headers.                                                    *)
(***************************************************************************)
Header1(b, packet_id) ==
  Or(Or(Shl(PROTOCOL_TYPE_I2C, PKT_HDR1_PROTOCOL_SHIFT),
        Shl(packet_id, PKT_HDR1_PKT_ID_SHIFT)),
     Shl(i2c_controllers[b].id, PKT_HDR1_CTLR_ID_SHIFT))

Header2(t) == Shl(t.num_bytes - 1, PKT_HDR2_PAYLOAD_SIZE_SHIFT)

Header3Swapped(t) ==
  LET d == Shl(t.address, PKT_HDR3_SLAVE_ADDR_SHIFT)
  IN  IF TestBit(t.flags, I2C_IS_WRITE) THEN Or(d, PKT_HDR3_READ_MODE_MASK) ELSE d
Header3(t) ==
  LET d == Shl(t.address, PKT_HDR3_SLAVE_ADDR_SHIFT)
  IN  IF ~TestBit(t.flags, I2C_IS_WRITE) THEN Or(d, PKT_HDR3_READ_MODE_MASK) ELSE d

send_packet_headers(b, t, packet_id) ==
  <<Wr(b, "tx_fifo", Header1(b, packet_id), "hdr"),
    Wr(b, "tx_fifo", Header2(t), "hdr"),
    Wr(b, "tx_fifo", Header3(t), "hdr")>>

(***************************************************************************)
(* The hardware.                                                           *)
(***************************************************************************)
IntBits == {I2C_INT_XFER_COMPLETE_MASK, I2C_INT_NO_ACK_MASK,
            I2C_INT_ARBITRATION_LOST_MASK}
\* fifo_status samples: (tx empty count << 4) | rx full count
FifoStatusVals == {Shl(I2C_FIFO_DEPTH, TX_FIFO_EMPTY_CNT_SHIFT),
                   Shl(I2C_FIFO_DEPTH - 1, TX_FIFO_EMPTY_CNT_SHIFT) + 1}
\* words a device may return
RxWords == {<<17, 34, 51, 68>>, <<255, 0, 128, 1>>}

InFlight == pc \in {"loop", "wait_tx", "wait_rx", "wait_xfer"}

\* the controller raises a status bit while a transaction is in flight
HwEvent ==
  /\ InFlight
  /\ \E bit \in IntBits :
       /\ ~TestBit(hw_int, bit)
       /\ hw_int' = hw_int + bit
  /\ UNCHANGED <<boardVars, callVars, engVars, rxq, loopback, mem>>

\* fifo_status samples the hardware can give now: the loopback double never
\* reports receive data it does not hold
FifoStatusNow ==
  {v \in FifoStatusVals :
     loopback => (Field4(v, TX_FIFO_FULL_CNT_SHIFT) # 0 => rxq # <<>>)}
\* rx_fifo words the hardware can give now
RxFifoNow == IF loopback /\ rxq # <<>> THEN {Head(rxq)} ELSE RxWords


(***************************************************************************)
(* send_recv_packets, one step per loop iteration and per poll check.      *)
(***************************************************************************)
is_write == TestBit(trans.flags, I2C_IS_WRITE)
last_bytes == trans.num_bytes % 4

NoTrans == [address |-> 0, buf |-> 0, flags |-> 0, num_bytes |-> 0,
            is_10bit_address |-> 0]

\* writel(int_status, &control->int_status): the value read is written back
StatusWriteBackNone(v) == v - v
StatusWriteBack(v) == v

\* entry of send_recv_packets up to the head of the word loop
SendRecvEnter(b, t) ==
  /\ trans' = t
  /\ cur' = b
  /\ ops' = <<Rd(b, "int_status"),
              Wr(b, "int_status", StatusWriteBack(hw_int), "")>>
              \o send_packet_headers(b, t, 1)
  /\ hw_int' = ClearBits(hw_int, StatusWriteBack(hw_int), 1)
  /\ words' = DIV_ROUND_UP(t.num_bytes, 4)
  /\ dptr' = t.buf
  /\ error' = 0
  /\ pc' = "loop"
  /\ touched' = TRUE
  /\ UNCHANGED <<local, ret, timeout_us, count, wfc>>

\* while (timeout_us >= 0)
PollLiveShort(t) == t > 0
PollLive(t) == t >= 0

\* while (words) { ... }: the head of one iteration, up to its wait
WordLoop ==
  /\ pc = "loop"
  /\ IF words = 0
     THEN /\ pc' = "wait_xfer"
          /\ UNCHANGED <<ops, local, rxq>>
     ELSE IF is_write
     THEN \E pad \in PadBytes :
            LET w == IF Misaligned(dptr) THEN MemcpyWord(dptr, pad)
                     ELSE LoadU32(dptr, pad)
            IN  /\ local' = (IF Misaligned(dptr) THEN w ELSE local)
                /\ ops' = Append(ops, Wr(cur, "tx_fifo", w, "data"))
                /\ rxq' = (IF loopback THEN Append(rxq, w) ELSE rxq)
                /\ pc' = "wait_tx"
     ELSE /\ pc' = "wait_rx"
          /\ UNCHANGED <<ops, local, rxq>>
  /\ timeout_us' = I2C_TIMEOUT_USEC
  /\ UNCHANGED <<boardVars, callVars, trans, cur, words, dptr, error, ret,
                 count, wfc, hw_int, loopback, mem>>

\* if (count == I2C_FIFO_DEPTH) return 1;
TxFifoEmptyAny(c) == c >= 0
TxFifoEmpty(c) == c = I2C_FIFO_DEPTH

\* wait_for_tx_fifo_empty, one check; on success: words--, dptr += 4
WaitTxFifoEmpty ==
  /\ pc = "wait_tx"
  /\ IF PollLive(timeout_us)
     THEN \E v \in FifoStatusNow :
            /\ count' = Field4(v, TX_FIFO_EMPTY_CNT_SHIFT)
            /\ ops' = Append(ops, Rd(cur, "fifo_status"))
            /\ IF TxFifoEmpty(count')
               THEN /\ words' = words - 1
                    /\ dptr' = dptr + 4
                    /\ pc' = "loop"
                    /\ UNCHANGED timeout_us
               ELSE /\ timeout_us' = timeout_us - POLL_STEP_USEC
                    /\ UNCHANGED <<words, dptr, pc>>
            /\ UNCHANGED error
     ELSE /\ error' = -1
          /\ pc' = "exit"
          /\ UNCHANGED <<count, ops, words, dptr, timeout_us>>
  /\ UNCHANGED <<boardVars, callVars, trans, cur, local, ret, wfc, hwVars, mem>>

\* bytes the current word stores into the buffer
StoreLenFull == IF words = 1 THEN 4 ELSE 4
StoreLen == IF words = 1 /\ last_bytes # 0 THEN last_bytes ELSE 4

\* the store of the staging word w at dptr
StoreWord(w) ==
  IF words = 1 /\ last_bytes # 0 THEN MemcpyTo(mem, dptr, w, StoreLen)
  ELSE IF Misaligned(dptr) THEN MemcpyTo(mem, dptr, w, 4)
  ELSE StoreU32(mem, dptr, w)

\* if (count) return 1;
RxFifoNotEmptyAny(c) == c >= 0
RxFifoNotEmpty(c) == c # 0

\* wait_for_rx_fifo_notempty, one check; on success the word is read and
\* stored, words--, dptr += 4
WaitRxFifoNotEmpty ==
  /\ pc = "wait_rx"
  /\ IF PollLive(timeout_us)
     THEN \E v \in FifoStatusNow :
            /\ count' = Field4(v, TX_FIFO_FULL_CNT_SHIFT)
            /\ IF RxFifoNotEmpty(count')
               THEN \E w \in RxFifoNow :
                      /\ local' = w
                      /\ ops' = ops \o <<Rd(cur, "fifo_status"), Rd(cur, "rx_fifo")>>
                      /\ rxq' = (IF loopback /\ rxq # <<>> THEN Tail(rxq) ELSE rxq)
                      /\ mem' = StoreWord(w)
                      /\ words' = words - 1
                      /\ dptr' = dptr + 4
                      /\ pc' = "loop"
                      /\ UNCHANGED timeout_us
               ELSE /\ ops' = Append(ops, Rd(cur, "fifo_status"))
                    /\ timeout_us' = timeout_us - POLL_STEP_USEC
                    /\ UNCHANGED <<local, rxq, mem, words, dptr, pc>>
            /\ UNCHANGED error
     ELSE /\ error' = -1
          /\ pc' = "exit"
          /\ UNCHANGED <<count, ops, local, rxq, mem, words, dptr, timeout_us>>
  /\ UNCHANGED <<boardVars, callVars, trans, cur, ret, wfc, hw_int, loopback>>

\* what one sample of int_status makes wait_for_transfer_complete do:
\* return val, or go round the loop again
XferSampleNoErr(s) ==
  IF TestBit(s, I2C_INT_XFER_COMPLETE_MASK) THEN [again |-> FALSE, val |-> 0]
  ELSE [again |-> TRUE, val |-> 0]
XferSampleDoneFirst(s) ==
  IF TestBit(s, I2C_INT_XFER_COMPLETE_MASK) THEN [again |-> FALSE, val |-> 0]
  ELSE IF TestBit(s, I2C_INT_NO_ACK_MASK) THEN [again |-> FALSE, val |-> 0 - s]
  ELSE IF TestBit(s, I2C_INT_ARBITRATION_LOST_MASK) THEN [again |-> FALSE, val |-> 0 - s]
  ELSE [again |-> TRUE, val |-> 0]
XferSample(s) ==
  IF TestBit(s, I2C_INT_NO_ACK_MASK) THEN [again |-> FALSE, val |-> 0 - s]
  ELSE IF TestBit(s, I2C_INT_ARBITRATION_LOST_MASK) THEN [again |-> FALSE, val |-> 0 - s]
  ELSE IF TestBit(s, I2C_INT_XFER_COMPLETE_MASK) THEN [again |-> FALSE, val |-> 0]
  ELSE [again |-> TRUE, val |-> 0]

\* error = -1 after a failed wait_for_transfer_complete
XferErrorKeep(r) == r
XferError(r) == -1

\* wait_for_transfer_complete, one check, and the if around its call
WaitTransferComplete ==
  /\ pc = "wait_xfer"
  /\ LET r == IF PollLive(timeout_us) THEN XferSample(hw_int)
              ELSE [again |-> FALSE, val |-> -1]
     IN  /\ ops' = (IF PollLive(timeout_us)
                    THEN Append(ops, Rd(cur, "int_status")) ELSE ops)
         /\ IF r.again
            THEN /\ timeout_us' = timeout_us - POLL_STEP_USEC
                 /\ UNCHANGED <<wfc, error, ret, pc>>
            ELSE /\ wfc' = r.val
                 /\ UNCHANGED timeout_us
                 /\ IF r.val # 0
                    THEN /\ error' = XferError(r.val)
                         /\ pc' = "exit"
                         /\ UNCHANGED ret
                    ELSE /\ ret' = 0
                         /\ pc' = "ret"
                         /\ UNCHANGED error
  /\ UNCHANGED <<boardVars, callVars, trans, cur, words, dptr, local, count,
                 hwVars, mem>>

\* exit: i2c_reset_controller(i2c_bus); return error;
ResetOnExitNone(b, is_dvc, sl) == <<>>
ResetOnExitResend(b, is_dvc, sl) ==
  i2c_reset_controller(b, is_dvc, sl) \o send_packet_headers(b, trans, 1)
ResetOnExit(b, is_dvc, sl) == i2c_reset_controller(b, is_dvc, sl)

Exit ==
  /\ pc = "exit"
  /\ \E sl \in SlCnfgVals :
       ops' = ops \o ResetOnExit(cur, i2c_controllers[cur].is_dvc, sl)
  /\ hw_int' = (IF \E i \in 1 .. Len(ops') : IsReset(ops'[i]) THEN 0 ELSE hw_int)
  /\ rxq' = (IF \E i \in 1 .. Len(ops') : IsReset(ops'[i]) THEN <<>> ELSE rxq)
  /\ ret' = error
  /\ pc' = "ret"
  /\ UNCHANGED <<boardVars, callVars, trans, cur, words, dptr, local, error,
                 timeout_us, count, wfc, loopback, mem>>


(***************************************************************************)
(* The callers.  A caller fills its buffers, runs one operation and reads  *)
(* the result (op.phase = "done") before it starts the next.               *)
(***************************************************************************)
Chips == {80}
BufOffs == 0 .. MaxOff

NoOp == [kind |-> "none", phase |-> "idle", hwadapnr |-> 0, chip |-> 0,
         addr |-> 0, alen |-> 0, buffer |-> 0, len |-> 0, offset |-> 0,
         src |-> 0, rc |-> 0]
NoData == [at |-> DataBase, bytes |-> <<>>]

\* what the caller sees of a finished transaction
TxnOf(r) == [address |-> trans.address, flags |-> trans.flags,
             num_bytes |-> trans.num_bytes, buf |-> trans.buf, ret |-> r,
             tx |-> SelectSeq(ops, LAMBDA e : IsTxWrite(e) /\ e.tag = "data")]

\* tegra_i2c_write_data: the descriptor of a write
WriteTrans(addr, buf, len) ==
  [address |-> addr, buf |-> buf, flags |-> I2C_IS_WRITE, num_bytes |-> len,
   is_10bit_address |-> 0]
\* tegra_i2c_read_data: the descriptor of a read
ReadTrans(addr, buf, len) ==
  [address |-> Or(addr, 1), buf |-> buf, flags |-> 0, num_bytes |-> len,
   is_10bit_address |-> 0]

Idle == op.kind = "none" /\ pc = "idle" /\ board.pass = "done"

\* i2c_write_data(bus, chip, buffer, len), down to the word loop
CallWriteData ==
  /\ Idle
  /\ \E b \in CtlrIds, chip \in Chips, off \in BufOffs, len \in 1 .. MaxLen,
        img \in MemImages :
       /\ i2c_controllers[b].inited
       /\ op' = [NoOp EXCEPT !.kind = "i2c_write_data", !.phase = "run",
                             !.hwadapnr = b, !.chip = chip, !.buffer = off,
                             !.len = len]
       /\ mem' = img
       /\ mem0' = img
       /\ SendRecvEnter(b, WriteTrans(Shl(chip, 1), off, len))
  /\ txns' = <<>>
  /\ loopback' = FALSE
  /\ UNCHANGED <<boardVars, data, rxq>>

\* i2c_read_data(bus, chip, buffer, len), down to the word loop
CallReadData ==
  /\ Idle
  /\ \E b \in CtlrIds, chip \in Chips, off \in BufOffs, len \in 1 .. MaxLen,
        img \in MemImages :
       /\ i2c_controllers[b].inited
       /\ op' = [NoOp EXCEPT !.kind = "i2c_read_data", !.phase = "run",
                             !.hwadapnr = b, !.chip = chip,
                             !.buffer = DstBase + off, !.len = len]
       /\ mem' = img
       /\ mem0' = img
       /\ SendRecvEnter(b, ReadTrans(Shl(chip, 1), DstBase + off, len))
  /\ txns' = <<>>
  /\ loopback' = FALSE
  /\ UNCHANGED <<boardVars, data, rxq>>

\* the round trip through the loopback double: i2c_write_data of len bytes
\* at src, then (RoundTripRead) i2c_read_data of len bytes into buffer
RoundTripWrite ==
  /\ Idle
  /\ \E b \in CtlrIds, chip \in Chips, soff \in BufOffs, doff \in BufOffs,
        len \in 1 .. MaxLen, img \in MemImages :
       /\ i2c_controllers[b].inited
       /\ op' = [NoOp EXCEPT !.kind = "roundtrip", !.phase = "write",
                             !.hwadapnr = b, !.chip = chip, !.src = soff,
                             !.buffer = DstBase + doff, !.len = len]
       /\ mem' = img
       /\ mem0' = img
       /\ SendRecvEnter(b, WriteTrans(Shl(chip, 1), soff, len))
  /\ txns' = <<>>
  /\ loopback' = TRUE
  /\ rxq' = <<>>
  /\ UNCHANGED <<boardVars, data>>

RoundTripRead ==
  /\ op.kind = "roundtrip" /\ op.phase = "write"
  /\ pc = "ret"
  /\ ret = 0
  /\ op' = [op EXCEPT !.phase = "read"]
  /\ txns' = Append(txns, TxnOf(ret))
  /\ SendRecvEnter(op.hwadapnr, ReadTrans(Shl(op.chip, 1), op.buffer, op.len))
  /\ UNCHANGED <<boardVars, data, rxq, loopback, mem, mem0>>

\* send_recv_packets returns into i2c_write_data / i2c_read_data, which
\* return its value
ReturnData ==
  /\ pc = "ret"
  /\ \/ op.kind \in {"i2c_write_data", "i2c_read_data"} /\ op.phase = "run"
     \/ op.kind = "roundtrip" /\ op.phase = "write" /\ ret # 0
     \/ op.kind = "roundtrip" /\ op.phase = "read"
  /\ op' = [op EXCEPT !.phase = "done", !.rc = ret]
  /\ txns' = Append(txns, TxnOf(ret))
  /\ pc' = "idle"
  /\ UNCHANGED <<boardVars, data, touched, mem0, trans, cur, words, dptr, local,
                 error, ret, timeout_us, count, wfc, ops, hwVars, mem>>

\* the caller has read the result; the locals of the call are gone
Complete ==
  /\ op.phase = "done"
  /\ op' = NoOp
  /\ data' = NoData
  /\ txns' = <<>>
  /\ touched' = FALSE
  /\ mem0' = mem
  /\ trans' = NoTrans
  /\ cur' = 0 /\ words' = 0 /\ dptr' = 0 /\ local' = <<0, 0, 0, 0>> /\ error' = 0
  /\ ret' = 0 /\ timeout_us' = 0 /\ count' = 0 /\ wfc' = 0
  /\ ops' = <<>>
  /\ pc' = "idle"
  /\ loopback' = FALSE
  /\ rxq' = <<>>
  /\ UNCHANGED <<boardVars, hw_int, mem>>

(***************************************************************************)
(* The adapter entry points: tegra_i2c_probe, tegra_i2c_read,              *)
(* tegra_i2c_write, tegra_i2c_set_bus_speed.                               *)
(***************************************************************************)
\* alignments the compiler may give the local array, register addresses and
\* address widths a caller passes, speeds it asks for
DataAligns == {0, 1}
Addrs == {255}
Alens == 0 .. 3
SpeedVals == {100000}

\* tegra_i2c_get_bus: whether it returns the bus (TRUE) or NULL (FALSE)
tegra_i2c_get_bus(hwadapnr) == i2c_controllers[hwadapnr].inited

\* i2c_addr_ok
i2c_addr_okWide(addr, alen) == alen >= 1
i2c_addr_ok(addr, alen) == alen = 1 \/ alen = 2

\* data[alen - i - 1] = (addr + offset) >> (8 * i), as uchar, for i < alen
AddrBytesLsbFirst(addr, alen, offset) ==
  [j \in 1 .. alen |-> ((addr + offset) \div (256 ^ (j - 1))) % 256]
AddrBytes(addr, alen, offset) ==
  [j \in 1 .. alen |-> ((addr + offset) \div (256 ^ (alen - j))) % 256]

\* what tegra_i2c_probe returns for the rc of i2c_write_data
ProbeResultInverted(rc) == IF rc # 0 THEN 0 ELSE 1
ProbeResult(rc) == IF rc # 0 THEN 1 ELSE 0

\* what tegra_i2c_set_bus_speed returns when tegra_i2c_get_bus gives NULL
SpeedNoBusResult == 1 - 1

\* an entry point returns r without starting a transaction
ReturnAtOnce(o, r) ==
  /\ op' = [o EXCEPT !.phase = "done", !.rc = r]
  /\ txns' = <<>>
  /\ UNCHANGED <<data, touched, engVars, hwVars>>

\* tegra_i2c_probe, down to the word loop of its write
ProbeCall ==
  /\ Idle
  /\ \E b \in CtlrIds, chip \in Chips, al \in DataAligns :
       LET o == [NoOp EXCEPT !.kind = "probe", !.phase = "run",
                             !.hwadapnr = b, !.chip = chip]
       IN  /\ UNCHANGED <<mem, mem0>>
           /\ IF ~tegra_i2c_get_bus(b)
              THEN ReturnAtOnce(o, 1)
              ELSE /\ op' = o
                   /\ data' = [at |-> DataBase + al, bytes |-> <<0>>]
                   /\ txns' = <<>>
                   /\ SendRecvEnter(b, WriteTrans(Shl(chip, 1), DataBase + al, 1))
                   /\ UNCHANGED <<rxq, loopback>>
  /\ UNCHANGED boardVars

\* i2c_write_data returns into tegra_i2c_probe
ProbeReturn ==
  /\ pc = "ret"
  /\ op.kind = "probe" /\ op.phase = "run"
  /\ op' = [op EXCEPT !.phase = "done", !.rc = ProbeResult(ret)]
  /\ txns' = Append(txns, TxnOf(ret))
  /\ pc' = "idle"
  /\ UNCHANGED <<boardVars, data, touched, mem0, trans, cur, words, dptr, local,
                 error, ret, timeout_us, count, wfc, ops, hwVars, mem>>

\* tegra_i2c_set_bus_speed
SetBusSpeed ==
  /\ Idle
  /\ \E b \in CtlrIds, speed \in SpeedVals, sl \in SlCnfgVals, cd \in ClkDivVals :
       LET o == [NoOp EXCEPT !.kind = "set_bus_speed", !.phase = "run",
                             !.hwadapnr = b, !.addr = speed]
       IN  IF ~tegra_i2c_get_bus(b)
           THEN /\ ReturnAtOnce(o, SpeedNoBusResult)
                /\ UNCHANGED i2c_controllers
           ELSE /\ i2c_controllers' = [i2c_controllers EXCEPT ![b].speed = speed]
                /\ ops' = i2c_init_controller(b, i2c_controllers'[b], sl, cd)
                /\ hw_int' = 0
                /\ touched' = TRUE
                /\ op' = [o EXCEPT !.phase = "done", !.rc = 0]
                /\ txns' = <<>>
                /\ UNCHANGED <<data, trans, cur, pc, words, dptr, local, error,
                               ret, timeout_us, count, wfc, rxq, loopback>>
  /\ UNCHANGED <<node_list, board, mem, mem0>>

\* the loop of tegra_i2c_read from its head: return 0 after len bytes, else
\* build data[] and start the write of the address bytes
ReadLoop(o, al) ==
  IF o.offset >= o.len
  THEN /\ op' = [o EXCEPT !.phase = "done", !.rc = 0]
       /\ pc' = "idle"
       /\ UNCHANGED <<data, touched, trans, cur, words, dptr, local, error, ret,
                      timeout_us, count, wfc, ops, hw_int>>
  ELSE /\ op' = [o EXCEPT !.phase = "addr"]
       /\ data' = [at |-> DataBase + al,
                   bytes |-> AddrBytes(o.addr, o.alen, o.offset)]
       /\ SendRecvEnter(o.hwadapnr,
                        WriteTrans(Shl(o.chip, 1), DataBase + al, o.alen))

\* the loop of tegra_i2c_write from its head; m is the caller's memory
WriteLoop(o, al, m) ==
  IF o.offset >= o.len
  THEN /\ op' = [o EXCEPT !.phase = "done", !.rc = 0]
       /\ pc' = "idle"
       /\ UNCHANGED <<data, touched, trans, cur, words, dptr, local, error, ret,
                      timeout_us, count, wfc, ops, hw_int>>
  ELSE /\ op' = [o EXCEPT !.phase = "data"]
       /\ data' = [at |-> DataBase + al,
                   bytes |-> Append(AddrBytes(o.addr, o.alen, o.offset),
                                    m[o.buffer + o.offset])]
       /\ SendRecvEnter(o.hwadapnr,
                        WriteTrans(Shl(o.chip, 1), DataBase + al, o.alen + 1))

\* tegra_i2c_read / tegra_i2c_write up to their first transaction
StreamCall ==
  /\ Idle
  /\ \E kind \in {"read", "write"}, b \in CtlrIds, chip \in Chips,
        addr \in Addrs, alen \in Alens, len \in 0 .. MaxStream,
        img \in MemImages, al \in DataAligns :
       LET o == [NoOp EXCEPT !.kind = kind, !.phase = "run", !.hwadapnr = b,
                             !.chip = chip, !.addr = addr, !.alen = alen,
                             !.buffer = IF kind = "read" THEN DstBase ELSE 0,
                             !.len = len]
       IN  /\ mem' = img
           /\ mem0' = img
           /\ IF ~tegra_i2c_get_bus(b)
              THEN ReturnAtOnce(o, 1)
              ELSE IF ~i2c_addr_ok(addr, alen)
              THEN ReturnAtOnce(o, 1)
              ELSE /\ txns' = <<>>
                   /\ IF kind = "read" THEN ReadLoop(o, al)
                      ELSE WriteLoop(o, al, img)
                   /\ UNCHANGED <<rxq, loopback>>
  /\ UNCHANGED boardVars

\* a transaction of tegra_i2c_read / tegra_i2c_write returns
StreamReturn ==
  /\ pc = "ret"
  /\ op.kind \in {"read", "write"}
  /\ txns' = Append(txns, TxnOf(ret))
  /\ IF ret # 0
     THEN /\ op' = [op EXCEPT !.phase = "done", !.rc = 1]
          /\ pc' = "idle"
          /\ UNCHANGED <<data, touched, trans, cur, words, dptr, local, error,
                         ret, timeout_us, count, wfc, ops, hw_int>>
     ELSE IF op.kind = "read" /\ op.phase = "addr"
     THEN /\ op' = [op EXCEPT !.phase = "data"]
          /\ SendRecvEnter(op.hwadapnr,
                           ReadTrans(Shl(op.chip, 1), op.buffer + op.offset, 1))
          /\ UNCHANGED data
     ELSE \E al \in DataAligns :
            IF op.kind = "read"
            THEN ReadLoop([op EXCEPT !.offset = op.offset + 1], al)
            ELSE WriteLoop([op EXCEPT !.offset = op.offset + 1], al, mem)
  /\ UNCHANGED <<boardVars, rxq, loopback, mem, mem0>>

(***************************************************************************)
(* i2c_init_board and process_nodes, one step per loop iteration; the flat *)
(* device tree is the environment.                                         *)
(***************************************************************************)
Passes == <<"t114", "t20", "dvc">>
PassAfter(ps) == IF ps = "boot" THEN "t114"
                 ELSE IF ps = "t114" THEN "t20"
                 ELSE IF ps = "t20" THEN "dvc" ELSE "done"
DtSpeeds == {100000}

\* fdtdec_find_aliases_for_id clears the list and fills the slots of the
\* nodes it finds (1: a node offset > 0); fdtdec_add_aliases_for_id fills
\* free (0) slots only
NodeLists(ps) ==
  IF ps = "dvc"
  THEN {nl \in [CtlrIds -> {-1, 0, 1}] :
          \A i \in CtlrIds : node_list[i] # 0 => nl[i] = node_list[i]}
  ELSE [CtlrIds -> {0, 1}]

\* i2c_init_board returns: its node_list is gone
BoardDone ==
  /\ board' = [pass |-> "done", i |-> 0, stage |-> "node"]
  /\ node_list' = [i \in CtlrIds |-> 0]
  /\ ops' = <<>>
  /\ touched' = FALSE

\* i2c_init_board starts, or process_nodes returns 0: the next pass
BoardPass ==
  /\ board.pass # "done"
  /\ board.pass = "boot" \/ board.i = TEGRA_I2C_NUM_CONTROLLERS
  /\ IF PassAfter(board.pass) = "done"
     THEN BoardDone
     ELSE /\ node_list' \in NodeLists(PassAfter(board.pass))
          /\ board' = [pass |-> PassAfter(board.pass), i |-> 0, stage |-> "node"]
          /\ UNCHANGED <<ops, touched>>
  /\ UNCHANGED <<i2c_controllers, op, data, txns, mem0, trans, cur, pc, words,
                 dptr, local, error, ret, timeout_us, count, wfc, hwVars, mem>>

\* one iteration of process_nodes up to and including i2c_init_controller
ProcessNode ==
  /\ board.pass \in {"t114", "t20", "dvc"}
  /\ board.stage = "node"
  /\ board.i < TEGRA_I2C_NUM_CONTROLLERS
  /\ LET i == board.i
     IN  IF node_list[i] <= 0
         THEN /\ board' = [board EXCEPT !.i = i + 1]
              /\ UNCHANGED <<i2c_controllers, node_list, ops, touched, hw_int>>
         ELSE \E periph_id \in {-1, i}, speed \in DtSpeeds, sl \in SlCnfgVals,
                 cd \in ClkDivVals :
                LET cfg == [i2c_controllers[i] EXCEPT
                              !.id = i, !.speed = speed, !.periph_id = periph_id]
                    bus == [cfg EXCEPT !.is_scs = (board.pass = "t114"),
                                       !.is_dvc = (board.pass = "dvc")]
                IN  IF periph_id = -1
                    THEN /\ i2c_controllers' = [i2c_controllers EXCEPT ![i] = cfg]
                         /\ BoardDone
                         /\ UNCHANGED hw_int
                    ELSE /\ i2c_controllers' = [i2c_controllers EXCEPT ![i] = bus]
                         /\ ops' = i2c_init_controller(i, bus, sl, cd)
                         /\ touched' = TRUE
                         /\ hw_int' = 0
                         /\ board' = [board EXCEPT !.stage = "mark"]
                         /\ UNCHANGED node_list
  /\ UNCHANGED <<op, data, txns, mem0, trans, cur, pc, words, dptr,
                 local, error, ret, timeout_us, count, wfc, rxq, loopback, mem>>

\* i2c_bus->inited = 1; node_list[i] = -1;
MarkInitedNot(b) == b.inited
MarkInited(b) == TRUE

ProcessNodeMark ==
  /\ board.pass \in {"t114", "t20", "dvc"}
  /\ board.stage = "mark"
  /\ i2c_controllers' =
       [i2c_controllers EXCEPT ![board.i].inited = MarkInited(i2c_controllers[board.i])]
  /\ node_list' = [node_list EXCEPT ![board.i] = -1]
  /\ board' = [board EXCEPT !.i = board.i + 1, !.stage = "node"]
  /\ UNCHANGED <<callVars, engVars, hwVars, mem>>

(***************************************************************************)
(* The transfer engine on initialized controllers.                         *)
(***************************************************************************)
\* the kinds of controller i2c_init_board sets up that differ for a transfer
\* (is_scs is read by i2c_init_controller alone)
BusKinds == {[is_dvc |-> FALSE, is_scs |-> FALSE],
             [is_dvc |-> TRUE, is_scs |-> FALSE]}
InitedBus(i, kd) == [id |-> i, periph_id |-> i, speed |-> 100000,
                     is_dvc |-> kd.is_dvc, is_scs |-> kd.is_scs, inited |-> TRUE]

EngineIdle ==
  /\ op = NoOp
  /\ data = NoData
  /\ txns = <<>>
  /\ touched = FALSE
  /\ trans = NoTrans
  /\ cur = 0 /\ words = 0 /\ dptr = 0 /\ local = <<0, 0, 0, 0>> /\ error = 0
  /\ ret = 0 /\ timeout_us = 0 /\ count = 0 /\ wfc = 0
  /\ ops = <<>>
  /\ pc = "idle"
  /\ hw_int = 0
  /\ rxq = <<>>
  /\ loopback = FALSE
  /\ mem0 = mem

\* after i2c_init_board: controller 0 is up, as an I2C or a DVC controller
Init ==
  /\ \E kd \in BusKinds :
       i2c_controllers = [i \in CtlrIds |-> IF i = 0 THEN InitedBus(i, kd) ELSE ZeroBus]
  /\ node_list = [i \in CtlrIds |-> 0]
  /\ board = [pass |-> "done", i |-> 0, stage |-> "node"]
  /\ mem \in MemImages
  /\ EngineIdle

Engine == WordLoop \/ WaitTxFifoEmpty \/ WaitRxFifoNotEmpty
            \/ WaitTransferComplete \/ Exit \/ HwEvent

Next == CallWriteData \/ CallReadData \/ RoundTripWrite \/ RoundTripRead
          \/ ReturnData \/ ProbeCall \/ ProbeReturn \/ SetBusSpeed
          \/ StreamCall \/ StreamReturn \/ Complete \/ Engine

Spec == Init /\ [][Next]_vars

(***************************************************************************)
(* The driver from boot: i2c_init_board, then the adapter entry points.    *)
(***************************************************************************)
InitBoard ==
  /\ i2c_controllers = [i \in CtlrIds |-> ZeroBus]
  /\ node_list = [i \in CtlrIds |-> 0]
  /\ board = [pass |-> "boot", i |-> 0, stage |-> "node"]
  /\ mem = MemImage(0, 0)
  /\ EngineIdle

NextBoard == BoardPass \/ ProcessNode \/ ProcessNodeMark \/ SetBusSpeed
               \/ ProbeCall \/ ProbeReturn \/ Complete \/ WordLoop
               \/ WaitTxFifoEmpty \/ WaitTransferComplete \/ Exit \/ HwEvent

SpecBoard == InitBoard /\ [][NextBoard]_vars


(***************************************************************************)
(* Claims about the transfer engine.                                       *)
(***************************************************************************)
\* a send_recv_packets call has returned (its locals are still in place)
Returned == pc = "ret"
TxData == SelectSeq(ops, LAMBDA e : IsTxWrite(e) /\ e.tag = "data")
TxAll == SelectSeq(ops, IsTxWrite)
RxAll == SelectSeq(ops, IsRxRead)
\* checks of the poll that ran last: the reads since the last FIFO access
\* that are not followed by anything but reads of the same register
RECURSIVE TrailingReads(_, _)
TrailingReads(s, reg) ==
  IF s = <<>> THEN 0
  ELSE LET e == s[Len(s)]
       IN  IF e.k = "r" /\ e.reg = reg
           THEN 1 + TrailingReads(SubSeq(s, 1, Len(s) - 1), reg)
           ELSE 0

\* C1: when send_recv_packets returns a non-zero error, i2c_reset_controller
\* (peripheral reset, then set_packet_mode) ran after the last FIFO access of
\* the call; when it returns 0 the call performed no reset.
C1_ResetIffError ==
  Returned =>
    IF ret # 0
    THEN \E i \in 1 .. Len(ops) :
           /\ IsReset(ops[i])
           /\ i < Len(ops)
           /\ ops[i + 1].k = "w" /\ ops[i + 1].reg \in {"cnfg", "dvc_cnfg"}
           /\ \A j \in 1 .. Len(ops) : IsFifoAccess(ops[j]) => j < i
    ELSE \A i \in 1 .. Len(ops) : ~IsReset(ops[i])

\* a read that failed after it had read a payload word has returned
C1_Witness ==
  Returned /\ ret # 0 /\ ~is_write /\ Len(RxAll) >= 1

\* C2: a no-acknowledge or arbitration-lost failure of the transfer-complete
\* poll reaches the caller of send_recv_packets as a value that differs from
\* the value of a timeout (-1).
C2_ErrorKindReachesCaller ==
  (Returned /\ wfc < -1) => ret # -1

\* the caller asked for a read transaction
ReadRequested ==
  \/ op.kind = "i2c_read_data"
  \/ op.kind = "roundtrip" /\ op.phase = "read"
  \/ op.kind = "read" /\ op.phase = "data"

\* C3: the first three FIFO accesses of a transaction are the tx_fifo writes
\* of header1, header2 (num_bytes - 1) and header3 (the 8-bit address, read
\* bit set exactly for a read), back to back, and no other header is sent.
C3_Headers ==
  pc # "idle" =>
    /\ Len(ops) >= 5
    /\ \A i \in 3 .. 5 : IsTxWrite(ops[i])
    /\ \A i \in 1 .. Len(ops) : IsFifoAccess(ops[i]) => i >= 3
    /\ \A i \in 6 .. Len(ops) : ops[i].tag # "hdr"
    /\ ops[3].val = 16 + 65536 + 4096 * i2c_controllers[cur].id
    /\ ops[4].val = trans.num_bytes - 1
    /\ ops[5].val = trans.address
                    + (IF trans.flags = I2C_IS_WRITE THEN 0 ELSE 524288)
    /\ trans.address = 2 * op.chip + (IF ReadRequested THEN 1 ELSE 0)
    /\ (trans.flags = I2C_IS_WRITE) <=> (trans.address % 2 = 0)

\* a read of chip 0x50 has sent its headers: address 0xA1, read bit set
C3_Witness ==
  /\ pc = "wait_rx" /\ op.chip = 80 /\ op.kind = "i2c_read_data"
  /\ ops[5].val = 161 + 524288

\* C4: a successful transfer of L bytes has done exactly ceil(L/4) payload
\* word operations, all in its direction.
C4_WordCount ==
  (Returned /\ ret = 0) =>
    LET L == trans.num_bytes
        n == IF L % 4 = 0 THEN L \div 4 ELSE L \div 4 + 1
    IN  IF trans.flags = I2C_IS_WRITE
        THEN Len(TxData) = n /\ Len(RxAll) = 0 /\ Len(TxAll) = n + 3
        ELSE Len(RxAll) = n /\ Len(TxAll) = 3

\* a 5-byte write and a 5-byte read have succeeded
C4_Witness ==
  Returned /\ ret = 0 /\ trans.num_bytes = 5 /\ ~is_write /\ Len(RxAll) = 2

\* C8: a poll makes at most I2C_TIMEOUT_USEC / 10 + 1 checks, returns its
\* timeout failure after exactly that many, and a call performs a bounded
\* number of hardware accesses.
PollChecks == I2C_TIMEOUT_USEC \div 10 + 1
LastPollReads ==
  IF ops # <<>> /\ ops[Len(ops)].reg = "int_status"
  THEN TrailingReads(ops, "int_status")
  ELSE TrailingReads(ops, "fifo_status")
C8_PollBudget ==
  /\ pc \in {"wait_tx", "wait_rx", "wait_xfer"} => LastPollReads <= PollChecks
  /\ (pc = "exit" /\ wfc \in {0, -1}) => LastPollReads = PollChecks
  /\ (pc = "exit" /\ wfc < -1) => LastPollReads \in 1 .. PollChecks
  /\ pc # "idle" =>
       Len(ops) <= 5 + ((trans.num_bytes + 3) \div 4) * (PollChecks + 1)
                     + PollChecks + 4

\* each of the three polls has timed out
C8_Witness ==
  pc = "exit" /\ wfc = -1 /\ ops[Len(ops)].reg = "int_status"

\* the bytes a write transaction reads: the caller's memory as it was at the
\* call, or the local array data[] of tegra_i2c_probe / tegra_i2c_write
InObject(a) == a < MemSize \/ (a - data.at + 1) \in 1 .. Len(data.bytes)
SrcByte(a) == IF a < MemSize THEN mem0[a] ELSE data.bytes[a - data.at + 1]

\* C9: for L not a multiple of 4, the last word of a read stores the L mod 4
\* low-order bytes of the FIFO word and no byte at index >= L changes; the
\* last word of a write is the full four bytes at its address.
C9_PartialLastWord ==
  (pc # "idle" /\ words = 0 /\ trans.num_bytes % 4 # 0) =>
    LET L == trans.num_bytes
        lastAt == trans.buf + 4 * (L \div 4)
        frameLo == IF op.kind = "read" THEN op.buffer ELSE trans.buf
    IN  IF trans.flags = I2C_IS_WRITE
        THEN /\ TxData # <<>>
             /\ Len(TxData[Len(TxData)].val) = 4
             /\ \A i \in 0 .. 3 :
                  InObject(lastAt + i) =>
                    TxData[Len(TxData)].val[i + 1] = SrcByte(lastAt + i)
             /\ \A i \in 0 .. ((L % 4) - 1) : InObject(lastAt + i)
        ELSE /\ \A i \in 0 .. ((L % 4) - 1) : mem[lastAt + i] = local[i + 1]
             /\ \A a \in DOMAIN mem :
                  (a >= trans.buf + L \/ a < frameLo) => mem[a] = mem0[a]

\* a 5-byte read has stored its last word at a misaligned address
C9_Witness ==
  /\ pc = "ret" /\ ret = 0 /\ ~is_write /\ trans.num_bytes = 5
  /\ trans.buf % 4 # 0
  /\ mem[trans.buf + 4] # mem0[trans.buf + 4]

\* C10: a write of L bytes followed by a read of L bytes through the
\* loopback double leaves the L bytes written in the read buffer.
C10_RoundTrip ==
  (op.kind = "roundtrip" /\ op.phase = "done" /\ op.rc = 0) =>
    \A i \in 0 .. (op.len - 1) : mem[op.buffer + i] = mem0[op.src + i]

\* a 5-byte round trip from a misaligned source into an aligned buffer
C10_Witness ==
  /\ op.kind = "roundtrip" /\ op.phase = "done" /\ op.rc = 0
  /\ op.len = 5 /\ op.src % 4 # 0 /\ op.buffer % 4 = 0
  /\ Len(txns) = 2

(***************************************************************************)
(* Claims about the adapter entry points and i2c_init_board.               *)
(***************************************************************************)
\* C5: tegra_i2c_probe on an initialized controller does one write
\* transaction of the single byte 0 to the chip and derives its result from
\* that transaction alone: 1 (absent) when the write failed, a no-acknowledge
\* failure included, and 0 (present) when the write reported no error.
C5_ProbePresence ==
  (op.kind = "probe" /\ op.phase = "done"
     /\ i2c_controllers[op.hwadapnr].inited) =>
    /\ Len(txns) = 1
    /\ txns[1].flags = I2C_IS_WRITE
    /\ txns[1].num_bytes = 1
    /\ txns[1].address = 2 * op.chip
    /\ \A i \in 1 .. Len(txns[1].tx) : txns[1].tx[i].val[1] = 0
    /\ (wfc < -1 /\ TestBit(0 - wfc, I2C_INT_NO_ACK_MASK)) => op.rc = 1
    /\ txns[1].ret # 0 => op.rc = 1
    /\ txns[1].ret = 0 => op.rc = 0

\* a probe whose write was not acknowledged has reported the chip absent
C5_Witness ==
  /\ op.kind = "probe" /\ op.phase = "done" /\ op.rc = 1
  /\ wfc = 0 - I2C_INT_NO_ACK_MASK
  /\ Len(txns) = 1 /\ Len(txns[1].tx) = 1

\* C6: read, write, probe and set_bus_speed on a controller whose inited flag
\* is clear return a non-zero value and access no hardware.
C6_UninitReportsError ==
  (op.phase = "done"
     /\ op.kind \in {"read", "write", "probe", "set_bus_speed"}
     /\ ~i2c_controllers[op.hwadapnr].inited) =>
    /\ op.rc # 0
    /\ ops = <<>>
    /\ ~touched

\* i2c_init_controller has run for controller i: clock start, peripheral
\* reset, then the packet-mode configuration, and nothing for another
\* controller
InitDone(i) ==
  /\ \A j \in 1 .. Len(ops) : ops[j].c = i
  /\ \E a, b, c \in 1 .. Len(ops) :
       /\ a < b /\ b < c
       /\ ops[a].k = "clock"
       /\ ops[b].k = "reset"
       /\ ops[c].k = "w" /\ ops[c].reg \in {"cnfg", "dvc_cnfg"}
       /\ TestBit(ops[c].val, I2C_CNFG_PACKET_MODE_MASK)

\* process_nodes leaves the loop because i2c_get_config failed
DecodeFails ==
  /\ board.pass # "done" /\ board.stage = "node"
  /\ board.i < TEGRA_I2C_NUM_CONTROLLERS
  /\ node_list[board.i] > 0
  /\ board'.pass = "done"

\* C7: the inited flag of a controller changes only from clear to set, only
\* in the step of process_nodes that follows i2c_init_controller for that
\* controller, and that step sets it; no transfer, probe or set_bus_speed
\* clears it, and a failed decode leaves the flag as it was.
C7_InitedOnceAfterInit ==
  [][/\ \A i \in CtlrIds :
          i2c_controllers'[i].inited # i2c_controllers[i].inited =>
            /\ ~i2c_controllers[i].inited
            /\ board.stage = "mark" /\ board.i = i
            /\ InitDone(i)
     /\ board.stage = "mark" => i2c_controllers'[board.i].inited
     /\ DecodeFails =>
          i2c_controllers'[board.i].inited = i2c_controllers[board.i].inited
    ]_vars

\* controller 0 is up and has recovered from a failed transfer; the decode
\* of controller 1 failed and it is not initialized
C7_Witness ==
  /\ board.pass = "done"
  /\ i2c_controllers[0].inited
  /\ ~i2c_controllers[1].inited /\ i2c_controllers[1].periph_id = -1
  /\ Returned /\ ret # 0 /\ cur = 0
  /\ \E j \in 1 .. Len(ops) : IsReset(ops[j])

(***************************************************************************)
(* Claims about failure handling inside send_recv_packets.                 *)
(***************************************************************************)
Resets == SelectSeq(ops, IsReset)
HdrWrites == SelectSeq(ops, LAMBDA e : e.tag = "hdr")
IsPollRead(e) == e.k = "r" /\ e.reg \in {"fifo_status", "int_status"}
IsPacketModeAccess(e) == e.reg \in {"cnfg", "dvc_cnfg", "sl_cnfg"}

\* C11: a call of send_recv_packets sends its three headers once; when it
\* has failed, the last sample of the failing wait is followed by one
\* peripheral reset and the packet-mode programming and by nothing else, and
\* the caller of the operation gets a non-zero result.
C11_NoRetry ==
  /\ pc # "idle" => Len(HdrWrites) = 3
  /\ pc = "exit" => IsPollRead(ops[Len(ops)]) /\ Resets = <<>>
  /\ (Returned /\ ret # 0) =>
       /\ Len(Resets) = 1
       /\ \E i \in 2 .. Len(ops) :
            /\ IsReset(ops[i])
            /\ IsPollRead(ops[i - 1])
            /\ i < Len(ops)
            /\ \A j \in (i + 1) .. Len(ops) :
                 ops[j].k \in {"r", "w"} /\ IsPacketModeAccess(ops[j])
  /\ (op.phase = "done" /\ txns # <<>> /\ txns[Len(txns)].ret # 0) => op.rc # 0

\* a 5-byte write has failed after its first payload word
C11_Witness ==
  /\ Returned /\ ret # 0 /\ is_write /\ trans.num_bytes = 5
  /\ Len(TxData) = 1 /\ Len(Resets) = 1

\* C12: tegra_i2c_read and tegra_i2c_write on an initialized controller
\* return 1 for an alen other than 1 or 2, with no transaction started, no
\* hardware access and the caller's memory as it was.
C12_AlenRejected ==
  (op.kind \in {"read", "write"} /\ op.phase = "done"
     /\ i2c_controllers[op.hwadapnr].inited /\ op.alen \notin {1, 2}) =>
    /\ op.rc = 1
    /\ txns = <<>>
    /\ ops = <<>>
    /\ ~touched
    /\ mem = mem0

\* a read of two bytes with a three-byte register address was rejected
C12_Witness ==
  /\ op.kind = "read" /\ op.phase = "done" /\ op.alen = 3 /\ op.len = 2
  /\ i2c_controllers[op.hwadapnr].inited
  /\ op.rc = 1

PayloadAccesses(s) == SelectSeq(s, LAMBDA e : IsRxRead(e) \/ (IsTxWrite(e) /\ e.tag = "data"))
ErrorBitSet ==
  TestBit(hw_int, I2C_INT_NO_ACK_MASK) \/ TestBit(hw_int, I2C_INT_ARBITRATION_LOST_MASK)

\* C13: while the interrupt status holds the no-acknowledge or the
\* arbitration-lost bit and payload words remain, the word loop makes no
\* further payload access to a FIFO.
C13_ErrorBitAbortsLoop ==
  [][(InFlight /\ words > 0 /\ ErrorBitSet) =>
       PayloadAccesses(ops') = PayloadAccesses(ops)]_vars

WordsOf(t) ==
  IF t.num_bytes % 4 = 0 THEN t.num_bytes \div 4 ELSE t.num_bytes \div 4 + 1
\* the wait that failed was a FIFO wait: its last sample read fifo_status
FifoWaitFailed == pc = "exit" /\ ops[Len(ops)].reg = "fifo_status"

\* C14: in a write every payload word is followed by a read of fifo_status,
\* the loop goes on to the next word only with an empty count equal to
\* I2C_FIFO_DEPTH, and when the wait after word k times out exactly k words
\* have been written and the call fails with none of the others written.
C14_TxWaitPerWord ==
  is_write =>
    /\ \A i \in 1 .. (Len(ops) - 1) :
         (IsTxWrite(ops[i]) /\ ops[i].tag = "data") =>
           ops[i + 1].k = "r" /\ ops[i + 1].reg = "fifo_status"
    /\ (pc = "loop" /\ TxData # <<>>) =>
         /\ count = I2C_FIFO_DEPTH
         /\ ops[Len(ops)].reg = "fifo_status"
         /\ Len(TxData) = WordsOf(trans) - words
    /\ pc = "wait_tx" => Len(TxData) = WordsOf(trans) - words + 1
    /\ FifoWaitFailed =>
         /\ words >= 1
         /\ count # I2C_FIFO_DEPTH
         /\ Len(TxData) = WordsOf(trans) - words + 1
         /\ error # 0
    /\ (Returned /\ ret # 0 /\ wfc = 0) =>
         /\ words >= 1
         /\ Len(TxData) = WordsOf(trans) - words + 1

\* the wait after the first of the two words of a 5-byte write has timed out
C14_Witness ==
  /\ Returned /\ ret # 0 /\ wfc = 0 /\ is_write
  /\ trans.num_bytes = 5 /\ words = 2 /\ Len(TxData) = 1

\* C15: in a read every read of rx_fifo comes right after a fifo_status
\* sample with a non-zero occupied count; when the wait for word k times out
\* k - 1 words have been read, the destination from offset 4 * (k - 1) on is
\* unchanged and the call fails.
C15_RxWaitBeforeRead ==
  ~is_write =>
    /\ \A i \in 1 .. Len(ops) :
         IsRxRead(ops[i]) =>
           i > 1 /\ ops[i - 1].k = "r" /\ ops[i - 1].reg = "fifo_status"
    /\ (pc = "loop" /\ RxAll # <<>>) =>
         /\ count # 0
         /\ IsRxRead(ops[Len(ops)])
         /\ Len(RxAll) = WordsOf(trans) - words
    /\ (loopback /\ pc = "loop") => Len(rxq) = words
    /\ (FifoWaitFailed \/ (Returned /\ ret # 0 /\ wfc = 0)) =>
         /\ words >= 1
         /\ FifoWaitFailed => count = 0 /\ error # 0
         /\ Len(RxAll) = WordsOf(trans) - words
         /\ \A a \in DOMAIN mem :
              a >= trans.buf + 4 * Len(RxAll) => mem[a] = mem0[a]

\* the wait for the second word of a 5-byte read has timed out
C15_Witness ==
  /\ Returned /\ ret # 0 /\ wfc = 0 /\ ~is_write /\ pc = "ret"
  /\ trans.num_bytes = 5 /\ words = 1 /\ Len(RxAll) = 1
  /\ mem[trans.buf] # mem0[trans.buf]

\* indices of the samples wait_for_transfer_complete took (the read at index
\* 1 is the status clear of the entry)
XferPollAt == {i \in 3 .. Len(ops) : ops[i].k = "r" /\ ops[i].reg = "int_status"}
PayloadAt == {i \in 1 .. Len(ops) :
                IsRxRead(ops[i]) \/ (IsTxWrite(ops[i]) /\ ops[i].tag = "data")}

\* C16: send_recv_packets returns 0 only after a sample of the
\* transfer-complete poll that had the transfer-complete bit set and both
\* error bits clear; the poll runs once, after all ceil(L/4) payload words.
C16_SuccessAfterComplete ==
  pc # "idle" =>
    /\ pc = "wait_xfer" => words = 0
    /\ XferPollAt # {} =>
         /\ words = 0
         /\ Cardinality(PayloadAt) = WordsOf(trans)
         /\ \A i \in XferPollAt, j \in PayloadAt : j < i
         /\ \A i \in XferPollAt : \A j \in i .. Len(ops) :
              j \in XferPollAt \/ (pc = "ret" /\ ret # 0 /\ ~IsFifoAccess(ops[j]))
         /\ Cardinality(XferPollAt) <= PollChecks
    /\ (Returned /\ ret = 0) =>
         /\ XferPollAt # {}
         /\ Len(ops) \in XferPollAt
         /\ TestBit(hw_int, I2C_INT_XFER_COMPLETE_MASK)
         /\ ~ErrorBitSet
         /\ wfc = 0

\* a 5-byte write has succeeded at the second sample of the poll
C16_Witness ==
  /\ Returned /\ ret = 0 /\ is_write /\ trans.num_bytes = 5
  /\ Cardinality(XferPollAt) = 2 /\ Len(TxData) = 2

\* what the recovery of a failed call did: the log from its reset on
Recovery ==
  LET i == CHOOSE i \in 1 .. Len(ops) : IsReset(ops[i])
  IN  SubSeq(ops, i, Len(ops))

\* C17: the recovery of a failed call is the peripheral reset followed by
\* the packet-mode programming: for a DVC controller one write of the
\* configuration to the DVC cnfg register and no access to sl_cnfg, otherwise
\* the write to cnfg and a read-modify-write of sl_cnfg that sets NEWSL.
C17_RecoveryOrder ==
  (Returned /\ ret # 0) =>
    /\ \E i \in 1 .. Len(ops) : IsReset(ops[i])
    /\ Recovery[1] = ResetPeriph(cur)
    /\ \A j \in 2 .. Len(Recovery) : Recovery[j].c = cur
    /\ IF i2c_controllers[cur].is_dvc
       THEN /\ Len(Recovery) = 2
            /\ Recovery[2].k = "w" /\ Recovery[2].reg = "dvc_cnfg"
            /\ TestBit(Recovery[2].val, I2C_CNFG_PACKET_MODE_MASK)
            /\ \A j \in 1 .. Len(ops) : ops[j].reg # "sl_cnfg"
       ELSE /\ Len(Recovery) = 4
            /\ Recovery[2].k = "w" /\ Recovery[2].reg = "cnfg"
            /\ TestBit(Recovery[2].val, I2C_CNFG_PACKET_MODE_MASK)
            /\ Recovery[3] = Rd(cur, "sl_cnfg")
            /\ Recovery[4].k = "w" /\ Recovery[4].reg = "sl_cnfg"
            /\ TestBit(Recovery[4].val, I2C_SL_CNFG_NEWSL_MASK)

\* a failed read on a DVC controller has been recovered
C17_Witness ==
  /\ Returned /\ ret # 0 /\ ~is_write /\ i2c_controllers[cur].is_dvc
  /\ ops[Len(ops)].reg = "dvc_cnfg"

\* the transfer-complete poll has just returned on a sample of int_status
PollDecided ==
  /\ pc \in {"exit", "ret"} /\ Len(ops) \in XferPollAt
  /\ pc = "exit" => wfc # -1

\* C18: the sample on which wait_for_transfer_complete returns decides by
\* the error bits first: with no-acknowledge or arbitration-lost set it
\* returns the negated sample, transfer-complete set or not, and it returns
\* 0 only for transfer-complete set and both error bits clear.
C18_ErrorBitsFirst ==
  PollDecided =>
    /\ ErrorBitSet => wfc = 0 - hw_int /\ wfc < 0 /\ pc = "exit" /\ error # 0
    /\ wfc = 0 =>
         /\ TestBit(hw_int, I2C_INT_XFER_COMPLETE_MASK)
         /\ ~ErrorBitSet
         /\ pc = "ret" /\ ret = 0
    /\ ErrorBitSet \/ TestBit(hw_int, I2C_INT_XFER_COMPLETE_MASK)

\* the poll has failed on a sample with no-acknowledge and
\* transfer-complete both set
C18_Witness ==
  /\ pc = "exit" /\ Len(ops) \in XferPollAt
  /\ hw_int = I2C_INT_NO_ACK_MASK + I2C_INT_XFER_COMPLETE_MASK
  /\ wfc = 0 - hw_int

\* a step that enters send_recv_packets
Enters == pc \in {"idle", "ret"} /\ pc' = "loop"

\* C19: send_recv_packets begins with a read of int_status and a write of
\* the value read to int_status, then the first header; with write-1-to-clear
\* bits no status bit of an earlier transaction is left when the word loop
\* starts.
C19_StatusCleared ==
  [][Enters =>
       /\ Len(ops') = 5
       /\ ops'[1] = Rd(cur', "int_status")
       /\ ops'[2] = Wr(cur', "int_status", hw_int, "")
       /\ ops'[3].reg = "tx_fifo" /\ ops'[3].tag = "hdr"
       /\ hw_int' = 0
    ]_vars

\* a transaction has started with the transfer-complete bit of the one
\* before it still set, and has cleared it
C19_Witness ==
  /\ pc = "loop" /\ Len(ops) = 5
  /\ ops[2].reg = "int_status" /\ ops[2].val = I2C_INT_XFER_COMPLETE_MASK
  /\ hw_int = 0

(***************************************************************************)
(* Claims about tegra_i2c_read and tegra_i2c_write.                        *)
(***************************************************************************)
\* the register address of the byte at offset, most significant byte first
MsbFirst(a, alen) ==
  IF alen = 1 THEN <<a % 256>> ELSE <<(a \div 256) % 256, a % 256>>
\* the first n bytes the payload word w carries
FirstBytes(w, n) == [j \in 1 .. n |-> w[j]]
\* transaction k of a tegra_i2c_read is the address write (odd k) or the
\* 1-byte read (even k) of the byte at offset (k - 1) \div 2
ReadStreamTxn(k) ==
  LET t == txns[k]
      off == (k - 1) \div 2
  IN  IF k % 2 = 1
      THEN /\ t.flags = I2C_IS_WRITE /\ t.num_bytes = op.alen
           /\ t.address = 2 * op.chip
           /\ Len(t.tx) <= 1
           /\ Len(t.tx) = 1 =>
                FirstBytes(t.tx[1].val, op.alen) = MsbFirst(op.addr + off, op.alen)
      ELSE /\ t.flags = 0 /\ t.num_bytes = 1
           /\ t.address = 2 * op.chip + 1
           /\ t.buf = op.buffer + off
           /\ t.tx = <<>>
\* transaction k of a tegra_i2c_write carries the address and the byte at
\* offset k - 1
WriteStreamTxn(k) ==
  LET t == txns[k]
  IN  /\ t.flags = I2C_IS_WRITE /\ t.num_bytes = op.alen + 1
      /\ t.address = 2 * op.chip
      /\ Len(t.tx) <= 1
      /\ Len(t.tx) = 1 =>
           FirstBytes(t.tx[1].val, op.alen + 1)
             = Append(MsbFirst(op.addr + k - 1, op.alen), mem0[op.buffer + k - 1])
StreamTotal == IF op.kind = "read" THEN 2 * op.len ELSE op.len

\* C20: tegra_i2c_read and tegra_i2c_write run one transaction group per
\* byte in increasing offset order, stop with 1 at the first transaction that
\* fails, leaving the later bytes untouched, and return 0 only when every
\* transaction has succeeded.
C20_PerByteTransactions ==
  (op.kind \in {"read", "write"} /\ i2c_controllers[op.hwadapnr].inited
     /\ op.alen \in {1, 2}) =>
    /\ Len(txns) <= StreamTotal
    /\ \A k \in 1 .. Len(txns) :
         /\ IF op.kind = "read" THEN ReadStreamTxn(k) ELSE WriteStreamTxn(k)
         /\ k < Len(txns) => txns[k].ret = 0
    /\ op.phase = "done" =>
         /\ op.rc \in {0, 1}
         /\ op.rc = 0 <=>
              (Len(txns) = StreamTotal /\ \A k \in 1 .. Len(txns) : txns[k].ret = 0)
         /\ op.rc = 1 => txns # <<>> /\ txns[Len(txns)].ret # 0
         /\ op.kind = "read" =>
              \A j \in 0 .. (MemSize - 1 - op.buffer) :
                j >= Len(txns) \div 2 => mem[op.buffer + j] = mem0[op.buffer + j]
         /\ op.kind = "write" => mem = mem0

\* a 2-byte read with a 2-byte register address has failed in the address
\* write of its second byte, after the first byte was read
C20_Witness ==
  /\ op.kind = "read" /\ op.phase = "done" /\ op.rc = 1
  /\ op.alen = 2 /\ op.len = 2 /\ Len(txns) = 3
  /\ txns[1].tx # <<>> /\ txns[3].tx # <<>>
  /\ mem[op.buffer] # mem0[op.buffer]

====
